---- MODULE Spec2Model ----
(***************************************************************************)
(* Model of the button library (src/src/buttons.c, src/include/buttons.h): *)
(* the per-switch debounce classifier buttons_extiGpioCallback, the poller *)
(* buttons_triggerPoll, the set functions, and the shared hold timer.      *)
(*                                                                         *)
(* Time is the millisecond clock millis().  The code subtracts tick values *)
(* as uint32_t; the clock of the model stays far below 2^32 and lastTime   *)
(* never exceeds the clock, so no difference wraps within the bounds.      *)
(***************************************************************************)
EXTENDS Integers, Sequences, FiniteSets, TLC

(***************************************************************************)
(* Program constants.                                                      *)
(***************************************************************************)
NUM_ALL_SWITCHES == 2
DEBOUNCE_TIME == 20
DOUBLE_PRESS_TIME == 300
MULTIPLE_BUTTON_TIME == 100
BUTTON_ACCELERATION_THRESHOLD == 18
BUTTON_ACCELERATION_CAP == 6

\* ButtonState (enum order of buttons.h)
Pressed == 0
DoublePressed == 1
Released == 2
DoublePressReleased == 3
Held == 4
HeldReleased == 5
Cleared == 6
HeldRepeat == 7
ButtonState == {Pressed, DoublePressed, Released, DoublePressReleased,
                Held, HeldReleased, Cleared, HeldRepeat}

\* ButtonEmulateAction
ButtonEmulatePress == 0
ButtonEmulateRelease == 1
ButtonEmulateNone == 2
ButtonEmulateAction == {ButtonEmulatePress, ButtonEmulateRelease, ButtonEmulateNone}

\* ButtonErrorState
ButtonMemError == 0
ButtonParamError == 1
ButtonHalError == 2
ButtonOk == 3

\* ButtonLogic
ActiveLow == 0
ActiveHigh == 1

\* The two builds of the pin read in buttons_extiGpioCallback
STM32CUBE == 1
ARDUINO == 2

(***************************************************************************)
(* Bounds of the model.                                                    *)
(***************************************************************************)
\* the clock readings at which operations run come in rounds 0 .. MaxRound
MaxRound == 1

\* length of a round and the readings within it: readings of one round are 20
\* and 21 ms apart (the debounce boundary: 20 - 0, 21 - 0, 42 - 21, 341 - 321),
\* readings of successive rounds 299, 300 and more ms apart (the double-press
\* boundary: 341 - 42, 342 - 42, 384 - 63)
RoundTime == 321
Offsets == {0, 20, 21, 42, 63}
Instants == {r * RoundTime + o : r \in 0 .. MaxRound, o \in Offsets}

\* the period of the hold timer, in ms (the time given to buttons_setHoldTimer)
HoldTime == 330

\* buttons_create is called while numButtons is below MaxButtons
MaxButtons == 3

\* the clock readings of the specification that takes the poll step by step
PreemptInstants == {DEBOUNCE_TIME + 1, 2 * (DEBOUNCE_TIME + 1), 3 * (DEBOUNCE_TIME + 1)}

\* the clock readings of the specifications that start before buttons_create
SetupInstants == {DEBOUNCE_TIME + 1, DEBOUNCE_TIME + 1 + HoldTime}

\* the values the application gives accelerationCounter and
\* accelerationThreshold while an entity is held
AccelerationCounters == {0, 3}
AccelerationThresholds == {BUTTON_ACCELERATION_THRESHOLD, BUTTON_ACCELERATION_CAP}

VARIABLES
    framework,       \* build variant of the pin read
    numButtons,      \* uint16_t numButtons
    buttons,         \* volatile Button buttons[NUM_ALL_SWITCHES]
    timerTriggered,  \* volatile uint32_t timerTriggered, as the set of its 1 bits
    holdTim,         \* TRUE iff a hold timer has been assigned (holdTim != NULL)
    timRunning,      \* the hold timer counts
    timCnt,          \* the hold timer's counter, in ms
    tick,            \* millis()
    poller,          \* buttons_triggerPoll taken step by step: where it stands,
                     \* its loop variable i and its local tempState
    watch,           \* observer: the entity it follows, or All
    trace            \* observer: the most recent operation, after the one before
                     \* it when the observer follows one entity

vars == <<framework, numButtons, buttons, timerTriggered, holdTim, timRunning,
          timCnt, tick, poller, watch, trace>>

\* buttons_triggerPoll is not running
Idle == [pc |-> "idle", i |-> 0, tempState |-> Cleared]

Indices == 0 .. (NUM_ALL_SWITCHES - 1)

\* ----------------------------------------------------------- buttons_create

\* mutant of the record of buttons_create: lastState is left zero (Pressed)
CreatedButton_LastStateZero(logicMode, funcp) ==
    [state |-> Cleared,
     lastState |-> 0,
     lastTime |-> 0,
     accelerationCounter |-> 0,
     accelerationThreshold |-> BUTTON_ACCELERATION_THRESHOLD,
     accelerationTrigger |-> FALSE,
     logicMode |-> logicMode,
     handler |-> funcp]

\* the record buttons_create leaves at its index
CreatedButton(logicMode, funcp) ==
    [state |-> Cleared,
     lastState |-> Released,
     lastTime |-> 0,
     accelerationCounter |-> 0,
     accelerationThreshold |-> BUTTON_ACCELERATION_THRESHOLD,
     accelerationTrigger |-> FALSE,
     logicMode |-> logicMode,
     handler |-> funcp]

\* an entry of buttons[] that buttons_create has not written: static storage,
\* all fields zero
ZeroButton ==
    [state |-> 0,
     lastState |-> 0,
     lastTime |-> 0,
     accelerationCounter |-> 0,
     accelerationThreshold |-> 0,
     accelerationTrigger |-> FALSE,
     logicMode |-> 0,
     handler |-> 0]

\* ---------------------------------------------------------------- observer

\* One record per operation.  op: the operation; index, press: the entity and
\* the edge kind of an edge; at: tickTime of an edge; gap: tickTime - lastTime
\* of an edge; wrote: the value an edge stored into state (Cleared when it
\* stored none); pre, preTT: buttons[index] and timerTriggered before the
\* operation; preCnt: the hold timer's counter before it; calls: handler
\* invocations, in order, each <<index, state>>; polled: a poll has run since
\* (since the entity was made Held, if it was); eligible: the entities that
\* were pressed, unreleased and held a claim when the hold timer elapsed;
\* promoted: the entities it made Held; level: the pin level an edge read
\* ("none" for an emulated edge, and when the observer does not record levels);
\* ret: the value a set function or buttons_create returned, with index its
\* index argument; funcp: the handler argument of buttons_create; begun: a
\* poll taken step by step has started since (polled then tells that such a
\* poll has returned).
NoOp == [op |-> "none", index |-> 0, press |-> FALSE, at |-> 0, gap |-> 0,
         wrote |-> Cleared, level |-> "none", ret |-> ButtonOk,
         pre |-> CreatedButton(ActiveLow, 0), preTT |-> {}, preCnt |-> 0,
         calls |-> <<>>, polled |-> FALSE, eligible |-> {}, promoted |-> {},
         funcp |-> 0, begun |-> FALSE]

EdgeOp(index, press, at, gap, wrote, pre, preTT, preCnt) ==
    [NoOp EXCEPT !.op = "edge", !.index = index, !.press = press, !.at = at,
                 !.gap = gap,
                 !.wrote = wrote, !.pre = pre, !.preTT = preTT, !.preCnt = preCnt]

PollOp(calls) == [NoOp EXCEPT !.op = "poll", !.calls = calls, !.polled = TRUE]

\* the steps of a poll taken step by step: its entry, one handler invocation,
\* its return
PollBeginOp == [NoOp EXCEPT !.op = "pollBegin"]

CallOp(calls) == [NoOp EXCEPT !.op = "call", !.calls = calls]

PollEndOp == [NoOp EXCEPT !.op = "pollEnd"]

TickOp == [NoOp EXCEPT !.op = "tick"]

SetOp(op, index, ret) == [NoOp EXCEPT !.op = op, !.index = index, !.ret = ret]

CreateOp(index, funcp, ret) ==
    [NoOp EXCEPT !.op = "create", !.index = index, !.funcp = funcp, !.ret = ret]

AccelerationOp(index) == [NoOp EXCEPT !.op = "acceleration", !.index = index]

ElapsedOp(preTT, eligible, promoted) ==
    [NoOp EXCEPT !.op = "elapsed", !.preTT = preTT, !.eligible = eligible,
                 !.promoted = promoted]

\* watch = All: the observer keeps the most recent operation, whatever it is
All == NUM_ALL_SWITCHES

\* watch = Pins: the same, and the record of an edge has the pin level it read
Pins == NUM_ALL_SWITCHES + 1

\* the pin level the observer records for an edge
Level(emulateAction, pinHigh) ==
    IF watch # Pins \/ emulateAction # ButtonEmulateNone THEN "none"
    ELSE IF pinHigh THEN "high" ELSE "low"

\* the invocations of cs that went to the handler of entity i
RECURSIVE CallsOf(_, _)
CallsOf(cs, i) ==
    IF cs = <<>> THEN <<>>
    ELSE (IF Head(cs)[1] = i THEN <<Head(cs)>> ELSE <<>>) \o CallsOf(Tail(cs), i)

\* the most recent operation recorded
Last == trace[Len(trace)]

\* The trace after operation r.  With watch = All it is that operation, with
\* the invocations it made.  Following one entity, it is the previous edge
\* handed to the classifier for that entity and the latest one, each with the
\* invocations of the entity's handler between that edge and the next one.
Observed(r) ==
    IF watch \in {All, Pins} THEN <<r>>
    ELSE IF r.op = "edge" /\ r.index = watch
         THEN <<Last, r>>
    ELSE IF r.op = "poll"
         THEN [trace EXCEPT ![Len(trace)] =
                  [@ EXCEPT !.calls = @ \o CallsOf(r.calls, watch), !.polled = TRUE]]
    ELSE IF r.op = "pollBegin"
         THEN [trace EXCEPT ![Len(trace)] = [@ EXCEPT !.begun = TRUE]]
    ELSE IF r.op = "call"
         THEN [trace EXCEPT ![Len(trace)] =
                  [@ EXCEPT !.calls = @ \o CallsOf(r.calls, watch)]]
    ELSE IF r.op = "pollEnd"
         THEN [trace EXCEPT ![Len(trace)] =
                  [@ EXCEPT !.polled = IF @ THEN TRUE ELSE Last.begun, !.begun = FALSE]]
    ELSE IF r.op = "elapsed"
         THEN [trace EXCEPT ![Len(trace)] =
                  [@ EXCEPT !.eligible = r.eligible \cap {watch},
                            !.promoted = r.promoted \cap {watch},
                            !.polled = IF watch \in r.promoted THEN FALSE ELSE @]]
    ELSE trace

\* ------------------------------------------------- buttons_extiGpioCallback

\* interruptState: 0 = pressed edge, 1 = released edge
InterruptState(fw, logicMode, emulateAction, pinHigh) ==
    IF emulateAction = ButtonEmulateNone
    THEN LET cond == IF fw = STM32CUBE THEN pinHigh ELSE ~pinHigh
         IN  IF cond
             THEN (IF logicMode = ActiveLow THEN 1 ELSE 0)
             ELSE (IF logicMode = ActiveLow THEN 0 ELSE 1)
    ELSE IF emulateAction = ButtonEmulatePress THEN 0
    ELSE IF emulateAction = ButtonEmulateRelease THEN 1
    ELSE 0

\* mutant of the debounce gate: the time of the last event is not subtracted
DebouncePassed_NoLastTime(tickTime, lastTime) == tickTime > DEBOUNCE_TIME

\* the debounce gate
DebouncePassed(tickTime, lastTime) == (tickTime - lastTime) > DEBOUNCE_TIME

\* mutant of the press classification: the window includes DOUBLE_PRESS_TIME
PressState_Inclusive(tickTime, lastTime) ==
    IF (tickTime - lastTime <= DOUBLE_PRESS_TIME) /\ lastTime > 0
    THEN DoublePressed
    ELSE Pressed

\* the classification of an accepted press edge
PressState(tickTime, lastTime) ==
    IF (tickTime - lastTime < DOUBLE_PRESS_TIME) /\ lastTime > 0
    THEN DoublePressed
    ELSE Pressed

\* mutant of the press branch: lastState is not updated
PressBranch_StateOnly(b, tickTime) ==
    [b EXCEPT !.state = PressState(tickTime, b.lastTime)]

\* mutant of the press branch: state is not written
PressBranch_LastStateOnly(b, tickTime) ==
    [b EXCEPT !.lastState = PressState(tickTime, b.lastTime)]

\* the entity after an accepted press edge
PressBranch(b, tickTime) ==
    [b EXCEPT !.state = PressState(tickTime, b.lastTime),
              !.lastState = PressState(tickTime, b.lastTime)]

\* mutant of the release dispatch: a release from Pressed takes the Held branch
ReleaseBranch_PressedAsHeld(b) ==
    IF b.lastState \in {Pressed, Held}
    THEN [b EXCEPT !.state = HeldReleased, !.lastState = HeldReleased,
                   !.accelerationThreshold = BUTTON_ACCELERATION_THRESHOLD,
                   !.accelerationCounter = 0]
    ELSE IF b.lastState = DoublePressed
    THEN [b EXCEPT !.state = DoublePressReleased, !.lastState = DoublePressReleased]
    ELSE b

\* mutant of the release dispatch: the Held branch leaves the acceleration
\* fields as they are
ReleaseBranch_NoAccelerationReset(b) ==
    IF b.lastState = Pressed
    THEN [b EXCEPT !.state = Released, !.lastState = Released]
    ELSE IF b.lastState = Held
    THEN [b EXCEPT !.state = HeldReleased, !.lastState = HeldReleased]
    ELSE IF b.lastState = DoublePressed
    THEN [b EXCEPT !.state = DoublePressReleased, !.lastState = DoublePressReleased]
    ELSE b

\* the entity after an accepted release edge
ReleaseBranch(b) ==
    IF b.lastState = Pressed
    THEN [b EXCEPT !.state = Released, !.lastState = Released]
    ELSE IF b.lastState = Held
    THEN [b EXCEPT !.state = HeldReleased, !.lastState = HeldReleased,
                   !.accelerationThreshold = BUTTON_ACCELERATION_THRESHOLD,
                   !.accelerationCounter = 0]
    ELSE IF b.lastState = DoublePressed
    THEN [b EXCEPT !.state = DoublePressReleased, !.lastState = DoublePressReleased]
    ELSE b

\* timerTriggered after an accepted release edge
ReleaseTimerTriggered(b, tt) ==
    IF b.lastState \in {Pressed, DoublePressed} THEN {} ELSE tt

\* the entity after the whole callback
CallbackButton(b, interruptState, tickTime) ==
    IF DebouncePassed(tickTime, b.lastTime)
    THEN [(IF interruptState = 0 THEN PressBranch(b, tickTime) ELSE ReleaseBranch(b))
            EXCEPT !.lastTime = tickTime]
    ELSE b

\* the value the callback stores into state, Cleared when it stores none
Wrote(b, interruptState, tickTime) ==
    IF ~DebouncePassed(tickTime, b.lastTime) THEN Cleared
    ELSE IF interruptState = 0 THEN PressState(tickTime, b.lastTime)
    ELSE IF b.lastState \in {Pressed, Held, DoublePressed} THEN ReleaseBranch(b).state
    ELSE Cleared

\* The hold timer in the press branch, when a hold timer is assigned: the first
\* claimant starts the timer, a later one joins while the counter is within
\* MULTIPLE_BUTTON_TIME.  buttons.c holds this code commented out (lines 285 to
\* 301); the definitions follow section 4.1 of the specification.
ArmTimerTriggered(index, tt, cnt) ==
    IF tt = {} THEN {index}
    ELSE IF cnt <= MULTIPLE_BUTTON_TIME THEN tt \cup {index}
    ELSE tt

ArmRunning(tt, running) == IF tt = {} THEN TRUE ELSE running

\* The hold timer in the release branch, when a hold timer is assigned: a release
\* from Pressed or DoublePressed stops the timer and zeroes its counter
\* (commented out in buttons.c, lines 322 to 328 and 344 to 350; after section
\* 4.1 of the specification).
ReleaseStops(b) == b.lastState \in {Pressed, DoublePressed}

\* mutant of the handler invocations of the callback: it hands the event to
\* the handler itself
InterruptCalls_Direct(index, wrote) ==
    IF wrote # Cleared THEN <<<<index, wrote>>>> ELSE <<>>

\* the handler invocations of the callback: lines 226 to 358 hold no call
\* through buttons[index].handler
InterruptCalls(index, wrote) == <<>>

buttons_extiGpioCallback(index, emulateAction, pinHigh) ==
    LET b == buttons[index]
        interruptState == InterruptState(framework, b.logicMode, emulateAction, pinHigh)
        tickTime == tick
        passed == DebouncePassed(tickTime, b.lastTime)
        press == interruptState = 0
    IN  /\ buttons' = [buttons EXCEPT ![index] = CallbackButton(b, interruptState, tickTime)]
        /\ timerTriggered' =
             IF ~passed THEN timerTriggered
             ELSE IF ~press THEN ReleaseTimerTriggered(b, timerTriggered)
             ELSE IF holdTim THEN ArmTimerTriggered(index, timerTriggered, timCnt)
             ELSE timerTriggered
        /\ timRunning' =
             IF ~passed \/ ~holdTim THEN timRunning
             ELSE IF press THEN ArmRunning(timerTriggered, timRunning)
             ELSE IF ReleaseStops(b) THEN FALSE
             ELSE timRunning
        /\ timCnt' =
             IF passed /\ holdTim /\ ~press /\ ReleaseStops(b) THEN 0 ELSE timCnt
        /\ trace' = Observed([EdgeOp(index, press, tickTime, tickTime - b.lastTime,
                                     Wrote(b, interruptState, tickTime), b,
                                     timerTriggered, timCnt)
                                 EXCEPT !.level = Level(emulateAction, pinHigh),
                                        !.calls = InterruptCalls(index,
                                                     Wrote(b, interruptState, tickTime))])
        /\ UNCHANGED <<poller, framework, numButtons, holdTim, tick, watch>>

\* ------------------------------------------------------ buttons_triggerPoll

\* the handler invocations of loop iteration i, in order
PollCalls(b, i) ==
    (IF b.state # Cleared THEN <<<<i, b.state>>>> ELSE <<>>)
    \o (IF b.accelerationTrigger THEN <<<<i, HeldRepeat>>>> ELSE <<>>)

\* mutant of the poll: state is not reset after the handler is called
PollButton_NoClear(b) == [b EXCEPT !.accelerationTrigger = FALSE]

\* the entity after its loop iteration
PollButton(b) == [b EXCEPT !.state = Cleared, !.accelerationTrigger = FALSE]

RECURSIVE PollLog(_, _, _)
\* the invocations of iterations i .. n-1
PollLog(bs, i, n) ==
    IF i >= n THEN <<>> ELSE PollCalls(bs[i], i) \o PollLog(bs, i + 1, n)

\* the invocations of the iterations i >= NUM_ALL_SWITCHES, which read past
\* the end of buttons[] (the loop runs to numButtons, line 180): what they
\* find there is not defined, so they call or they do not
WildCalls(n) ==
    IF n > NUM_ALL_SWITCHES THEN {<<>>, <<<<NUM_ALL_SWITCHES, Pressed>>>>}
    ELSE {<<>>}

buttons_triggerPoll ==
    \E wild \in WildCalls(numButtons) :
        /\ buttons' = [i \in Indices |->
                          IF i < numButtons THEN PollButton(buttons[i]) ELSE buttons[i]]
        /\ trace' = Observed(PollOp(PollLog(buttons, 0,
                                            IF numButtons > NUM_ALL_SWITCHES
                                            THEN NUM_ALL_SWITCHES ELSE numButtons)
                                    \o wild))
        /\ UNCHANGED <<poller, framework, numButtons, timerTriggered, holdTim, timRunning,
                       timCnt, tick, watch>>

\* buttons_triggerPoll statement by statement, so that an interrupt can fall
\* between two of them.  poller.pc names the statement that runs next.

\* entry: the loop starts at i = 0 (line 180)
PollBegin ==
    /\ poller.pc = "idle"
    /\ poller' = IF numButtons > 0 THEN [Idle EXCEPT !.pc = "test"] ELSE Idle
    /\ trace' = Observed(IF numButtons > 0 THEN PollBeginOp ELSE PollOp(<<>>))
    /\ UNCHANGED <<framework, numButtons, buttons, timerTriggered, holdTim,
                   timRunning, timCnt, tick, watch>>

\* line 182: if (buttons[i].state != Cleared)
PollTest ==
    /\ poller.pc = "test"
    /\ poller' = [poller EXCEPT !.pc = IF buttons[poller.i].state # Cleared
                                       THEN "capture" ELSE "accel"]
    /\ UNCHANGED <<framework, numButtons, buttons, timerTriggered, holdTim,
                   timRunning, timCnt, tick, watch, trace>>

\* line 184: ButtonState tempState = buttons[i].state;
PollCapture ==
    /\ poller.pc = "capture"
    /\ poller' = [poller EXCEPT !.pc = "clear", !.tempState = buttons[poller.i].state]
    /\ UNCHANGED <<framework, numButtons, buttons, timerTriggered, holdTim,
                   timRunning, timCnt, tick, watch, trace>>

\* line 185: buttons[i].state = Cleared;
PollClear ==
    /\ poller.pc = "clear"
    /\ poller' = [poller EXCEPT !.pc = "call"]
    /\ buttons' = [buttons EXCEPT ![poller.i].state = Cleared]
    /\ UNCHANGED <<framework, numButtons, timerTriggered, holdTim, timRunning,
                   timCnt, tick, watch, trace>>

\* line 186: buttons[i].handler(tempState);
PollCall ==
    /\ poller.pc = "call"
    /\ poller' = [poller EXCEPT !.pc = "accel", !.tempState = Cleared]
    /\ trace' = Observed(CallOp(<<<<poller.i, poller.tempState>>>>))
    /\ UNCHANGED <<framework, numButtons, buttons, timerTriggered, holdTim,
                   timRunning, timCnt, tick, watch>>

\* lines 188 to 192: if (buttons[i].accelerationTrigger) { ... }
PollAccel ==
    /\ poller.pc = "accel"
    /\ poller' = [poller EXCEPT !.pc = "next"]
    /\ buttons' = [buttons EXCEPT ![poller.i].accelerationTrigger = FALSE]
    /\ trace' = IF buttons[poller.i].accelerationTrigger
                THEN Observed(CallOp(<<<<poller.i, HeldRepeat>>>>))
                ELSE trace
    /\ UNCHANGED <<framework, numButtons, timerTriggered, holdTim, timRunning,
                   timCnt, tick, watch>>

\* line 180, i++ and i < numButtons: the next entity, or the return
PollNext ==
    /\ poller.pc = "next"
    /\ poller' = IF poller.i + 1 < numButtons
                 THEN [poller EXCEPT !.pc = "test", !.i = poller.i + 1]
                 ELSE Idle
    /\ trace' = IF poller.i + 1 < numButtons THEN trace ELSE Observed(PollEndOp)
    /\ UNCHANGED <<framework, numButtons, buttons, timerTriggered, holdTim,
                   timRunning, timCnt, tick, watch>>

\* ------------------------------------------------------------------ clock

\* millis() advances to the reading t
Tick(t) ==
    /\ t > tick
    /\ tick' = t
    /\ timCnt' = IF timRunning THEN timCnt + (t - tick) ELSE timCnt
    /\ trace' = Observed(TickOp)
    /\ UNCHANGED <<poller, framework, numButtons, buttons, timerTriggered, holdTim, timRunning,
                   watch>>

\* ---------------------------------------- buttons_setState, buttons_setLastState

\* mutant of buttons_setState: the range check lets index = numButtons pass
buttons_setState_OffByOne(index, state) ==
    /\ buttons' = IF index > numButtons THEN buttons
                  ELSE [buttons EXCEPT ![index].state = state]
    /\ trace' = Observed(SetOp("setState", index,
                               IF index > numButtons THEN ButtonParamError
                               ELSE ButtonOk))
    /\ UNCHANGED <<poller, framework, numButtons, timerTriggered, holdTim, timRunning,
                   timCnt, tick, watch>>

buttons_setState(index, state) ==
    /\ buttons' = IF index >= numButtons THEN buttons
                  ELSE [buttons EXCEPT ![index].state = state]
    /\ trace' = Observed(SetOp("setState", index,
                               IF index >= numButtons THEN ButtonParamError
                               ELSE ButtonOk))
    /\ UNCHANGED <<poller, framework, numButtons, timerTriggered, holdTim, timRunning,
                   timCnt, tick, watch>>

buttons_setLastState(index, state) ==
    /\ buttons' = IF index >= numButtons THEN buttons
                  ELSE [buttons EXCEPT ![index].lastState = state]
    /\ trace' = Observed(SetOp("setLastState", index,
                               IF index >= numButtons THEN ButtonParamError
                               ELSE ButtonOk))
    /\ UNCHANGED <<poller, framework, numButtons, timerTriggered, holdTim, timRunning,
                   timCnt, tick, watch>>

\* the application tracks hold acceleration in the fields of the entity, which
\* buttons.h exports for that
ApplicationAcceleration(index, counter, threshold) ==
    /\ buttons' = [buttons EXCEPT ![index].accelerationCounter = counter,
                                  ![index].accelerationThreshold = threshold]
    /\ trace' = Observed(AccelerationOp(index))
    /\ UNCHANGED <<poller, framework, numButtons, timerTriggered, holdTim, timRunning,
                   timCnt, tick, watch>>

\* ----------------------------------------------------------- buttons_create

\* What a write through an index past the end of buttons[] lands on: nothing
\* of this module, numButtons, or timerTriggered.  buttons_create does not
\* compare index with NUM_ALL_SWITCHES, so the write is made; where it lands
\* is the linker's choice.
Hits == {"none", "numButtons", "timerTriggered"}

\* lines 84 to 113: the only check is the one of funcp; numButtons is counted
\* up before the record is written; accelerationTrigger is not written
buttons_create(index, logicMode, funcp) ==
    IF funcp = 0
    THEN /\ trace' = Observed(CreateOp(index, funcp, ButtonParamError))
         /\ UNCHANGED <<poller, framework, numButtons, buttons, timerTriggered, holdTim,
                        timRunning, timCnt, tick, watch>>
    ELSE IF index \in Indices
    THEN /\ numButtons' = numButtons + 1
         /\ buttons' = [buttons EXCEPT ![index] =
                           [CreatedButton(logicMode, funcp) EXCEPT
                               !.accelerationTrigger = buttons[index].accelerationTrigger]]
         /\ trace' = Observed(CreateOp(index, funcp, ButtonOk))
         /\ UNCHANGED <<poller, framework, timerTriggered, holdTim, timRunning, timCnt,
                        tick, watch>>
    ELSE \E hit \in Hits :
            /\ numButtons' = IF hit = "numButtons" THEN 0 ELSE numButtons + 1
            /\ timerTriggered' = IF hit = "timerTriggered" THEN {} ELSE timerTriggered
            /\ trace' = Observed(CreateOp(index, funcp, ButtonOk))
            /\ UNCHANGED <<poller, framework, buttons, holdTim, timRunning, timCnt, tick,
                           watch>>

\* ------------------------------------------------- buttons_holdTimerElapsed
\* buttons.h declares the function; buttons.c holds its definition commented
\* out (lines 197 to 214).  The definitions follow section 4.2 of the
\* specification.

\* the hold timer has reached its period: its interrupt is due
Due == holdTim /\ timRunning /\ timCnt >= HoldTime

\* the entities the elapsed timer promotes: pressed, unreleased, with a claim
Eligible(bs, tt) ==
    {i \in Indices : i < numButtons /\ bs[i].lastState \in {Pressed, DoublePressed}
                                    /\ i \in tt}

Promote(b) == [b EXCEPT !.state = Held, !.lastState = Held]

\* the timer-elapsed entry point: stops the timer, promotes every eligible
\* entity and clears its claim; the counter starts over at its period
buttons_holdTimerElapsed ==
    /\ Due
    /\ buttons' = [i \in Indices |->
                      IF i \in Eligible(buttons, timerTriggered)
                      THEN Promote(buttons[i]) ELSE buttons[i]]
    /\ timerTriggered' = timerTriggered \ Eligible(buttons, timerTriggered)
    /\ timRunning' = FALSE
    /\ timCnt' = 0
    /\ trace' = Observed(ElapsedOp(timerTriggered, Eligible(buttons, timerTriggered),
                                   {i \in Indices : /\ buttons'[i] # buttons[i]
                                                    /\ buttons'[i].state = Held
                                                    /\ buttons'[i].lastState = Held}))
    /\ UNCHANGED <<poller, framework, numButtons, holdTim, tick, watch>>

\* ---------------------------------------------------------- specification

\* both entities created in index order, one of each polarity, no hold timer
Init ==
    /\ framework \in {STM32CUBE, ARDUINO}
    /\ numButtons = NUM_ALL_SWITCHES
    /\ buttons = [i \in Indices |->
                     CreatedButton(IF i = 0 THEN ActiveLow ELSE ActiveHigh, i + 1)]
    /\ timerTriggered = {}
    /\ holdTim = FALSE
    /\ timRunning = FALSE
    /\ timCnt = 0
    /\ tick = 0
    /\ poller = Idle
    /\ watch = All
    /\ trace = <<NoOp>>

\* one entity created, at index 0, and the observer following it
InitSeq ==
    /\ framework \in {STM32CUBE, ARDUINO}
    /\ numButtons = 1
    /\ buttons = [i \in Indices |->
                     IF i = 0 THEN CreatedButton(ActiveLow, 1) ELSE ZeroButton]
    /\ timerTriggered = {}
    /\ holdTim = FALSE
    /\ timRunning = FALSE
    /\ timCnt = 0
    /\ tick = 0
    /\ poller = Idle
    /\ watch = 0
    /\ trace = <<NoOp>>

\* one entity created, at index 0; the application also uses the set functions
\* and the acceleration fields (STM32CUBE build; SpecPin has the pin read of
\* both builds)
InitApi ==
    /\ framework = STM32CUBE
    /\ numButtons = 1
    /\ buttons = [i \in Indices |->
                     IF i = 0 THEN CreatedButton(ActiveLow, 1) ELSE ZeroButton]
    /\ timerTriggered = {}
    /\ holdTim = FALSE
    /\ timRunning = FALSE
    /\ timCnt = 0
    /\ tick = 0
    /\ poller = Idle
    /\ watch = All
    /\ trace = <<NoOp>>

\* both entities created, a hold timer assigned (STM32CUBE build)
InitHold ==
    /\ framework = STM32CUBE
    /\ numButtons = NUM_ALL_SWITCHES
    /\ buttons = [i \in Indices |->
                     CreatedButton(IF i = 0 THEN ActiveLow ELSE ActiveHigh, i + 1)]
    /\ timerTriggered = {}
    /\ holdTim = TRUE
    /\ timRunning = FALSE
    /\ timCnt = 0
    /\ tick = 0
    /\ poller = Idle
    /\ watch = All
    /\ trace = <<NoOp>>

\* one entity created, a hold timer assigned, the observer following the entity
InitHoldSeq ==
    /\ framework = STM32CUBE
    /\ numButtons = 1
    /\ buttons = [i \in Indices |->
                     IF i = 0 THEN CreatedButton(ActiveLow, 1) ELSE ZeroButton]
    /\ timerTriggered = {}
    /\ holdTim = TRUE
    /\ timRunning = FALSE
    /\ timCnt = 0
    /\ tick = 0
    /\ poller = Idle
    /\ watch = 0
    /\ trace = <<NoOp>>

\* one entity created, at index 0, of either polarity; the observer records
\* the pin levels
InitPin ==
    /\ framework \in {STM32CUBE, ARDUINO}
    /\ numButtons = 1
    /\ \E logicMode \in {ActiveLow, ActiveHigh} :
          buttons = [i \in Indices |->
                        IF i = 0 THEN CreatedButton(logicMode, 1) ELSE ZeroButton]
    /\ timerTriggered = {}
    /\ holdTim = FALSE
    /\ timRunning = FALSE
    /\ timCnt = 0
    /\ tick = 0
    /\ poller = Idle
    /\ watch = Pins
    /\ trace = <<NoOp>>

\* the clock does not pass the expiry of the hold timer before its interrupt
\* has run
\* one entity created, at index 0, the poll not running, and the observer
\* following the entity
InitPreempt ==
    /\ framework = STM32CUBE
    /\ numButtons = 1
    /\ buttons = [i \in Indices |->
                     IF i = 0 THEN CreatedButton(ActiveLow, 1) ELSE ZeroButton]
    /\ timerTriggered = {}
    /\ holdTim = FALSE
    /\ timRunning = FALSE
    /\ timCnt = 0
    /\ tick = 0
    /\ poller = Idle
    /\ watch = 0
    /\ trace = <<NoOp>>

\* nothing created yet: buttons[] is zeroed static storage
InitSetup ==
    /\ framework = STM32CUBE
    /\ numButtons = 0
    /\ buttons = [i \in Indices |-> ZeroButton]
    /\ timerTriggered = {}
    /\ holdTim = FALSE
    /\ timRunning = FALSE
    /\ timCnt = 0
    /\ tick = 0
    /\ poller = Idle
    /\ watch = All
    /\ trace = <<NoOp>>

\* nothing created yet, and a hold timer assigned
InitEntry ==
    /\ framework = STM32CUBE
    /\ numButtons = 0
    /\ buttons = [i \in Indices |-> ZeroButton]
    /\ timerTriggered = {}
    /\ holdTim = TRUE
    /\ timRunning = FALSE
    /\ timCnt = 0
    /\ tick = 0
    /\ poller = Idle
    /\ watch = All
    /\ trace = <<NoOp>>

Advance == \E t \in Instants : ~Due /\ Tick(t)

\* the application creates an entity; index NUM_ALL_SWITCHES is the one past
\* the declared range, funcp 0 is NULL
Create == \E index \in 0 .. NUM_ALL_SWITCHES, funcp \in {0, 1} :
              /\ numButtons < MaxButtons
              /\ buttons_create(index, ActiveLow, funcp)

Edge == \E index \in Indices, emulateAction \in ButtonEmulateAction, pinHigh \in BOOLEAN :
            /\ index < numButtons
            /\ ~Due
            /\ buttons_extiGpioCallback(index, emulateAction, pinHigh)

SetState == \E index \in Indices, state \in ButtonState : buttons_setState(index, state)

SetLastState == \E index \in Indices, state \in ButtonState :
                    buttons_setLastState(index, state)

Accelerate == \E index \in Indices, counter \in AccelerationCounters,
                 threshold \in AccelerationThresholds :
                  /\ index < numButtons
                  /\ buttons[index].lastState = Held
                  /\ ApplicationAcceleration(index, counter, threshold)

Next == Advance \/ Edge \/ buttons_triggerPoll

NextApi == Next \/ SetState \/ SetLastState \/ Accelerate

NextHold == Next \/ buttons_holdTimerElapsed

\* time passes during setup: to a reading past the debounce time, then to one
\* a hold period later
AdvanceSetup == \E t \in SetupInstants : ~Due /\ Tick(t)

\* the application clears the pending event of an entity
Reset == \E index \in Indices : buttons_setState(index, Cleared)

\* the application declares an entity released
ResetLast == \E index \in Indices : buttons_setLastState(index, Released)

\* the poll, one statement at a time
PollStep == PollBegin \/ PollTest \/ PollCapture \/ PollClear \/ PollCall
            \/ PollAccel \/ PollNext

\* time passes while the poll runs or waits: to a reading past the debounce
\* time, then to one as much later again
AdvancePreempt == \E t \in PreemptInstants : ~Due /\ Tick(t)

\* interrupts (the clock's and the pin's) fall between the statements of the
\* poll
NextPreempt == AdvancePreempt \/ Edge \/ PollStep

NextSetup == Create \/ AdvanceSetup \/ Edge \/ buttons_triggerPoll

NextEntry == NextSetup \/ Reset \/ ResetLast \/ buttons_holdTimerElapsed

Spec == Init /\ [][Next]_vars

SpecSeq == InitSeq /\ [][Next]_vars

SpecApi == InitApi /\ [][NextApi]_vars

SpecPin == InitPin /\ [][Next]_vars

SpecHold == InitHold /\ [][NextHold]_vars

SpecHoldSeq == InitHoldSeq /\ [][NextHold]_vars

SpecPreempt == InitPreempt /\ [][NextPreempt]_vars

SpecSetup == InitSetup /\ [][NextSetup]_vars

SpecEntry == InitEntry /\ [][NextEntry]_vars

TypeOK ==
    /\ numButtons \in 0 .. NUM_ALL_SWITCHES
    /\ \A i \in Indices :
         /\ buttons[i].state \in ButtonState
         /\ buttons[i].lastState \in ButtonState
         /\ buttons[i].lastTime <= tick

\* ------------------------------------------------------------------ claims

\* the edge most recently handed to the classifier passed the debounce gate
Accepted(r) == r.op = "edge" /\ r.gap > DEBOUNCE_TIME

\* the values of a sequence of invocations
RECURSIVE Values(_)
Values(cs) == IF cs = <<>> THEN <<>> ELSE <<Head(cs)[2]>> \o Values(Tail(cs))

\* C1: an edge that reaches buttons_extiGpioCallback less than DEBOUNCE_TIME after
\* the entity's lastTime changes nothing: the entity (state, lastState, lastTime,
\* accelerationCounter, accelerationThreshold) and timerTriggered are as before
\* the call, for a press or a release, from the pin or emulated, however often
\* the edge is repeated.
C1_BounceRejected ==
    (Last.op = "edge" /\ Last.gap < DEBOUNCE_TIME)
        => /\ buttons[Last.index] = Last.pre
           /\ timerTriggered = Last.preTT

\* a release edge was dropped on an entity with an undelivered Pressed, 0 ms
\* after the press
C1_Witness ==
    /\ Last.op = "edge" /\ Last.gap < DEBOUNCE_TIME /\ ~Last.press
    /\ Last.pre.lastState = Pressed /\ Last.pre.state = Pressed
    /\ Last.pre.lastTime > 0

\* C3: one uninterrupted buttons_triggerPoll invokes, for every entity in index
\* order, the handler once with the state the entity had when the poll began if
\* that state is not Cleared (and once with HeldRepeat if its acceleration
\* trigger is set), invokes nothing for an entity that is Cleared with its
\* trigger clear, leaves every entity's state Cleared, and a poll that follows
\* a poll directly invokes nothing.
C3_PollDrain ==
    [][ Last'.op = "poll" =>
          LET cs == Last'.calls
          IN  /\ \A i \in 0 .. (numButtons - 1) :
                   /\ Values(CallsOf(cs, i)) =
                        (IF buttons[i].state # Cleared THEN <<buttons[i].state>> ELSE <<>>)
                        \o (IF buttons[i].accelerationTrigger THEN <<HeldRepeat>> ELSE <<>>)
                   /\ buttons'[i].state = Cleared
              /\ \A k \in 1 .. Len(cs) : cs[k][1] \in 0 .. (numButtons - 1)
              /\ \A k, l \in 1 .. Len(cs) : k < l => cs[k][1] <= cs[l][1]
              /\ Last.op = "poll" => cs = <<>>
      ]_vars

\* a poll has drained both entities, entity 0 first
C3_Witness ==
    /\ Last.op = "poll"
    /\ Len(Last.calls) = 2
    /\ Last.calls[1][1] = 0 /\ Last.calls[2][1] = 1
    /\ \A i \in Indices : buttons[i].state = Cleared

\* C5: an accepted press edge is classified DoublePressed exactly when
\* now - lastTime < DOUBLE_PRESS_TIME and lastTime > 0, and Pressed otherwise
\* (299 ms: DoublePressed; 300 ms and more: Pressed); state and lastState both
\* take that value; the accepted release that follows a DoublePressed gives
\* DoublePressReleased.
C5_DoublePressRule ==
    Accepted(Last) =>
        LET b == buttons[Last.index]
            v == IF Last.gap < DOUBLE_PRESS_TIME /\ Last.pre.lastTime > 0
                 THEN DoublePressed ELSE Pressed
        IN  /\ Last.press => (b.state = v /\ b.lastState = v)
            /\ (Last.press /\ Last.gap = DOUBLE_PRESS_TIME - 1 /\ Last.pre.lastTime > 0)
                  => b.state = DoublePressed
            /\ (Last.press /\ Last.gap >= DOUBLE_PRESS_TIME) => b.state = Pressed
            /\ (~Last.press /\ Last.pre.lastState = DoublePressed)
                  => (b.state = DoublePressReleased /\ b.lastState = DoublePressReleased)

\* a press 299 ms after the release of an earlier press was classified
\* DoublePressed
C5_Witness ==
    /\ Accepted(Last) /\ Last.press /\ Last.gap = DOUBLE_PRESS_TIME - 1
    /\ Last.pre.lastState = Released
    /\ buttons[Last.index].state = DoublePressed

\* C6: a press edge that passes the debounce gate while lastState is Pressed,
\* DoublePressed or Held is not classified: state and lastState stay as they
\* were.
C6_PressGuard ==
    (Accepted(Last) /\ Last.press /\ Last.pre.lastState \in {Pressed, DoublePressed, Held})
        => /\ buttons[Last.index].state = Last.pre.state
           /\ buttons[Last.index].lastState = Last.pre.lastState

\* C10: with no hold timer assigned no entity's state or lastState is ever Held
\* or HeldReleased, no handler receives Held or HeldReleased, and no entity
\* claims the timer.
C10_HoldInert ==
    ~holdTim =>
        /\ \A i \in Indices :
             /\ buttons[i].state \notin {Held, HeldReleased}
             /\ buttons[i].lastState \notin {Held, HeldReleased}
        /\ \A k \in 1 .. Len(Last.calls) : Last.calls[k][2] \notin {Held, HeldReleased}
        /\ timerTriggered = {} /\ ~timRunning

\* with no hold timer a handler has received DoublePressReleased: press,
\* release, double press and release are still classified and delivered
C10_Witness ==
    /\ ~holdTim
    /\ Last.op = "poll"
    /\ \E k \in 1 .. Len(Last.calls) : Last.calls[k][2] = DoublePressReleased
    /\ \E i \in Indices : buttons[i].lastState = Released

\* ---- claims about sequences of operations on one entity (SpecSeq)

\* the invocations recorded with the edges k .. j of the trace, in order
RECURSIVE Got(_, _)
Got(k, j) == IF k > j THEN <<>> ELSE trace[k].calls \o Got(k + 1, j)

\* the first edge from k on after which a poll has run, 0 if there is none
FirstPolled(k) ==
    LET js == {j \in k .. Len(trace) : trace[j].polled}
    IN  IF js = {} THEN 0 ELSE CHOOSE j \in js : \A l \in js : j <= l

\* C2: every value buttons_extiGpioCallback stores into state is handed to the
\* entity's handler exactly once, by the next poll: once a poll has run after
\* the store, the handler has been invoked with that value once, and with
\* nothing else, since the store.
C2_DeliveredOnce ==
    \A k \in 1 .. Len(trace) :
        (trace[k].op = "edge" /\ trace[k].wrote # Cleared /\ FirstPolled(k) # 0)
            => Values(Got(k, FirstPolled(k))) = <<trace[k].wrote>>

SettledReleased == {Released, DoublePressReleased, HeldReleased}

\* the last two edges of the entity: a press edge that found lastState settled
\* released, a poll, a release edge more than DOUBLE_PRESS_TIME later, a poll
PressThenRelease ==
    /\ Len(trace) = 2
    /\ trace[1].op = "edge" /\ trace[1].press
    /\ trace[1].pre.lastState \in SettledReleased
    /\ trace[1].polled
    /\ trace[2].op = "edge" /\ ~trace[2].press
    /\ trace[2].at - trace[1].at > DOUBLE_PRESS_TIME
    /\ trace[2].polled

\* the handler received Pressed after the press and Released after the release
GotPressedReleased ==
    /\ Values(trace[1].calls) = <<Pressed>>
    /\ Values(trace[2].calls) = <<Released>>

PlainPress(r) ==
    \/ r.gap >= DOUBLE_PRESS_TIME
    \/ (r.pre.lastTime = 0 /\ r.gap > DEBOUNCE_TIME)

C7_ReleaseDispatch ==
    Accepted(Last) =>
        LET b == buttons[Last.index]
            p == Last.pre
        IN  /\ b.lastTime = Last.at /\ Last.at = tick
            /\ ~Last.press =>
                 /\ p.lastState = Pressed
                      => (b.state = Released /\ b.lastState = Released)
                 /\ p.lastState = DoublePressed
                      => (b.state = DoublePressReleased
                          /\ b.lastState = DoublePressReleased)
                 /\ p.lastState = Held
                      => /\ b.state = HeldReleased /\ b.lastState = HeldReleased
                         /\ b.accelerationCounter = 0
                         /\ b.accelerationThreshold = BUTTON_ACCELERATION_THRESHOLD
                 /\ p.lastState \notin {Pressed, DoublePressed, Held}
                      => (b.state = p.state /\ b.lastState = p.lastState)

\* an accepted release found lastState Held and the acceleration fields away
\* from their defaults, and has reset them
C7_Witness ==
    /\ Accepted(Last) /\ ~Last.press
    /\ Last.pre.lastState = Held
    /\ Last.pre.accelerationCounter # 0
    /\ Last.pre.accelerationThreshold # BUTTON_ACCELERATION_THRESHOLD
    /\ buttons[Last.index].lastState = HeldReleased
    /\ buttons[Last.index].accelerationCounter = 0

\* ---- claims about the hold timer (SpecHoldSeq, SpecHold)

\* C8: when the hold timer elapses, buttons_holdTimerElapsed makes Held (state
\* and lastState) exactly the entities that are pressed (lastState Pressed or
\* DoublePressed), unreleased and hold a claim, and clears their claims; the
\* next poll after that hands Held to the handler of each.
C8_HoldPromotion ==
    /\ Last.promoted = Last.eligible
    /\ watch \in Last.promoted
         => /\ buttons[watch].lastState = Held
            /\ watch \notin timerTriggered
            /\ Last.polled => Held \in {Values(Last.calls)[k] : k \in 1 .. Len(Last.calls)}
    /\ (Len(trace) = 2 /\ watch \in trace[1].promoted /\ trace[2].polled)
         => Held \in {Values(Got(1, 2))[k] : k \in 1 .. Len(Got(1, 2))}

\* C9: an accepted press of an entity that comes while another entity's
\* countdown runs, at most MULTIPLE_BUTTON_TIME after the press that started it,
\* joins the countdown: the entity takes a claim and the timer is not restarted;
\* with neither released, both become Held at the same elapse of the timer.
C9_HoldJoin ==
    /\ (Accepted(Last) /\ Last.press /\ Last.preTT # {}
          /\ Last.index \notin Last.preTT /\ Last.preCnt <= MULTIPLE_BUTTON_TIME)
         => /\ timerTriggered = Last.preTT \cup {Last.index}
            /\ timRunning /\ timCnt = Last.preCnt
    /\ (Last.op = "elapsed" /\ Last.preTT = Indices)
         => /\ Last.promoted = Indices
            /\ \A i \in Indices : buttons[i].state = Held /\ buttons[i].lastState = Held

\* both entities, pressed at different times, were made Held by one elapse of
\* the timer
C9_Witness ==
    /\ Last.op = "elapsed" /\ Last.promoted = Indices
    /\ buttons[0].lastTime # buttons[1].lastTime
    /\ \A i \in Indices : buttons[i].state = Held

\* ---- claims about the first edges of an entity and double presses (SpecSeq)

\* the entity as buttons_create left it
Fresh(b) == b.state = Cleared /\ b.lastState = Released /\ b.lastTime = 0

\* C16: a press edge on a freshly created entity (state Cleared, lastState
\* Released, lastTime 0) is classified Pressed at any clock time, 0 and the
\* times up to DEBOUNCE_TIME included, and a release edge more than
\* DEBOUNCE_TIME after that press is classified Released.
C16_FirstPress ==
    /\ (Last.op = "edge" /\ Last.press /\ Fresh(Last.pre)) => Last.wrote = Pressed
    /\ (/\ Len(trace) = 2
        /\ trace[1].op = "edge" /\ trace[1].press /\ Fresh(trace[1].pre)
        /\ trace[2].op = "edge" /\ ~trace[2].press
        /\ trace[2].at - trace[1].at > DEBOUNCE_TIME)
         => trace[2].wrote = Released

\* C19: when an accepted press edge is classified DoublePressed, the accepted
\* edge before it on that entity was a release that produced Released,
\* DoublePressReleased or HeldReleased; it was neither a release that produced
\* no event nor a press.
C19_DoublePressAfterRelease ==
    (/\ Len(trace) = 2
     /\ Accepted(trace[2]) /\ trace[2].press /\ trace[2].wrote = DoublePressed
     /\ Accepted(trace[1]))
        => (~trace[1].press /\ trace[1].wrote \in SettledReleased)

\* ---- the pending-event invariant (Spec)

\* C20: with edges and whole polls only, the state of every entity is Cleared
\* or equal to its lastState, and lastState is never Cleared or HeldRepeat.
C20_PendingEvent ==
    \A i \in Indices :
        /\ buttons[i].state \in {Cleared, buttons[i].lastState}
        /\ buttons[i].lastState \notin {Cleared, HeldRepeat}

\* a DoublePressReleased is pending on one entity while the other, pressed, has
\* been polled
C20_Witness ==
    /\ \E i \in Indices : /\ buttons[i].state = DoublePressReleased
                          /\ buttons[i].lastState = DoublePressReleased
    /\ \E i \in Indices : buttons[i].state = Cleared /\ buttons[i].lastState = Pressed

\* ---- the polarity of a pin edge (SpecPin)

\* C15: an edge read from the pin (ButtonEmulateNone) is a press edge exactly
\* when the entity is ActiveLow and the pin reads low, or ActiveHigh and the pin
\* reads high, and a release edge otherwise, in the STM32CUBE build and in the
\* ARDUINO build.
C15_Polarity ==
    (Last.op = "edge" /\ Last.level # "none")
        => (Last.press <=> \/ (Last.pre.logicMode = ActiveLow /\ Last.level = "low")
                           \/ (Last.pre.logicMode = ActiveHigh /\ Last.level = "high"))

\* ---- the frame of the set functions (SpecApi)

\* C17: buttons_setState and buttons_setLastState with index >= numButtons
\* return ButtonParamError and change no entity; with index < numButtons they
\* return ButtonOk and change the state field, respectively the lastState
\* field, of that entity and nothing else in any entity.
C17_SetFrame ==
    [][ Last'.op \in {"setState", "setLastState"} =>
          LET i == Last'.index
          IN  IF i >= numButtons
              THEN Last'.ret = ButtonParamError /\ buttons' = buttons
              ELSE /\ Last'.ret = ButtonOk
                   /\ buttons' = IF Last'.op = "setState"
                                 THEN [buttons EXCEPT ![i].state = buttons'[i].state]
                                 ELSE [buttons EXCEPT ![i].lastState =
                                                          buttons'[i].lastState]
      ]_vars

\* buttons_setState has stored Held over a pending Pressed: lastState and
\* lastTime are those of the press
C17_Witness ==
    /\ Last.op = "setState" /\ Last.index < numButtons /\ Last.ret = ButtonOk
    /\ buttons[Last.index].state = Held
    /\ buttons[Last.index].lastState = Pressed
    /\ buttons[Last.index].lastTime > 0
\* C14: buttons_create with a null handler returns ButtonParamError and leaves
\* numButtons and every entity as they were; with a handler it returns
\* ButtonOk, the entity at its index has state Cleared, lastState Released,
\* lastTime 0, accelerationCounter 0, accelerationThreshold
\* BUTTON_ACCELERATION_THRESHOLD and that handler, and every other entity is
\* as it was.
C14_Create ==
    [][ Last'.op = "create" =>
          LET i == Last'.index
          IN  IF Last'.funcp = 0
              THEN /\ Last'.ret = ButtonParamError
                   /\ numButtons' = numButtons
                   /\ buttons' = buttons
              ELSE /\ Last'.ret = ButtonOk
                   /\ i \in Indices =>
                        /\ buttons'[i].state = Cleared
                        /\ buttons'[i].lastState = Released
                        /\ buttons'[i].lastTime = 0
                        /\ buttons'[i].accelerationCounter = 0
                        /\ buttons'[i].accelerationThreshold = BUTTON_ACCELERATION_THRESHOLD
                        /\ buttons'[i].handler = Last'.funcp
                   /\ \A j \in Indices \ {i} : buttons'[j] = buttons[j] ]_vars

\* entity 0 has just been created with a handler while entity 1 holds a press
\* that no poll has fetched
C14_Witness ==
    /\ Last.op = "create" /\ Last.funcp # 0 /\ Last.index = 0 /\ Last.ret = ButtonOk
    /\ buttons[0].state = Cleared /\ buttons[0].handler = Last.funcp
    /\ buttons[1].handler # 0 /\ buttons[1].state = Pressed
    /\ buttons[1].lastTime > 0

\* C13: buttons_create with an index of NUM_ALL_SWITCHES or more returns
\* ButtonParamError, and numButtons is always the number of entities that have
\* been created (those with a handler), never more than NUM_ALL_SWITCHES.
C13_IndexRange ==
    /\ (Last.op = "create" /\ Last.index >= NUM_ALL_SWITCHES)
          => Last.ret = ButtonParamError
    /\ numButtons = Cardinality({i \in Indices : buttons[i].handler # 0})
    /\ numButtons <= NUM_ALL_SWITCHES

\* C12: a poll never calls through a null handler: every invocation a poll
\* makes for an entity of buttons[] finds a handler there.
C12_NullHandler ==
    Last.op = "poll" =>
        \A k \in 1 .. Len(Last.calls) :
            Last.calls[k][1] \in Indices => buttons[Last.calls[k][1]].handler # 0

\* C11: handlers are invoked by buttons_triggerPoll only: an edge, an elapsed
\* hold timer, buttons_create, buttons_setState and buttons_setLastState
\* invoke none.
C11_PollerOnly == Last.op # "poll" => Last.calls = <<>>

\* an edge has stored an event for an entity that has a handler, and no
\* handler has run
C11_Witness ==
    /\ Last.op = "edge" /\ Last.wrote # Cleared /\ Last.pre.handler # 0
    /\ buttons[Last.index].state = Last.wrote
    /\ Last.calls = <<>>

\* the values the classifier stores into state
Classified == {Pressed, DoublePressed, Released, DoublePressReleased, HeldReleased}

\* C18: no event is lost to a poll that an edge interrupts: once a poll that
\* started after an edge has returned, the value that edge stored has been
\* handed to the handler, by the poll the edge interrupted or by that one; and
\* every value handed to the handler is one the classifier stores.
C18_NoLostEvent ==
    /\ (Last.op = "edge" /\ Last.wrote # Cleared /\ Last.polled)
          => \E k \in 1 .. Len(Last.calls) : Last.calls[k] = <<Last.index, Last.wrote>>
    /\ \A k \in 1 .. Len(Last.calls) : Last.calls[k][2] \in Classified

====
